---- MODULE Spec2Model ----
(***************************************************************************)
(* A model of p5.pmath.vector.Vector (src/p5/pmath/vector.py).             *)
(*                                                                         *)
(* Numbers.  A Python number is modelled by the exact rational v = <<n, d>>*)
(* it stands for (lowest terms, d > 0) and by its kind k:                  *)
(*   "int"   a Python int equal to v;                                      *)
(*   "flt"   a float equal to v (+0.0 when v = 0);                         *)
(*   "neg0"  the float -0.0;                                               *)
(*   "any0"  a float zero whose sign the model does not follow;            *)
(*   "apx"   a float that differs from v by rounding error: a result of an *)
(*           inexact operation.  For v = 0 it is a residue: a zero of      *)
(*           either sign or a tiny number of either sign.                  *)
(* Arithmetic follows IEEE 754 on the zeros.  Where the code takes a       *)
(* decision that rounding error or the unknown sign of a zero can turn (a  *)
(* comparison of equal values, atan2 on the negative x axis, acos at +-1,  *)
(* isclose against a residue), the model has every outcome: the operators  *)
(* concerned return the SET of outcomes.  math.sqrt is evaluated only      *)
(* where its result is rational.  Angles are q quarter turns plus a copies *)
(* of Alpha = atan2(4, 3), written [q |-> q, a |-> a]; their cos and sin   *)
(* are rational, and atan2 / acos are evaluated only where their result is *)
(* such an angle.  Infinities, NaN, overflow and underflow are outside the *)
(* model.                                                                  *)
(*                                                                         *)
(* Objects.  heap is the sequence of live Vector instances; an instance's  *)
(* identity is its index.  A method is an operator from the heap and the   *)
(* call's arguments to an outcome record (Res), or to a set of them: the   *)
(* exception raised, the heap after the method's in-place effects, and the *)
(* returned value with the identity of a returned Vector.                  *)
(***************************************************************************)
EXTENDS Integers, Sequences, FiniteSets, TLC

VARIABLES heap, before, call, ret, err, cap, fuel

vars == <<heap, before, call, ret, err, cap, fuel>>

(***************************************************************************)
(* Bounds of the model.                                                    *)
(***************************************************************************)
\* A component is representable when |value| <= MaxAbs ...
MaxAbs == 14
\* ... and its denominator is at most MaxDen.
MaxDen == 10
\* Angles use at most MaxTurns copies of Alpha.
MaxTurns == 1
\* In-place mutations made by the three-object scenario (SpecHeap).
MaxMut == 1

(***************************************************************************)
(* Rational arithmetic: the values.                                        *)
(***************************************************************************)
Abs(n) == IF n < 0 THEN -n ELSE n

RECURSIVE Gcd(_, _)
Gcd(a, b) == IF b = 0 THEN a ELSE Gcd(b, a % b)

\* The rational n/d (d # 0) in lowest terms with a positive denominator.
Rat(n, d) ==
    LET g == Gcd(Abs(n), Abs(d))
        s == IF d < 0 THEN -1 ELSE 1
    IN  <<(s * n) \div g, (s * d) \div g>>

R0 == <<0, 1>>
R1 == <<1, 1>>
RInt(n) == <<n, 1>>

RAdd(p, q) == Rat(p[1] * q[2] + q[1] * p[2], p[2] * q[2])
RSub(p, q) == Rat(p[1] * q[2] - q[1] * p[2], p[2] * q[2])
RMul(p, q) == Rat(p[1] * q[1], p[2] * q[2])
\* p / q for q # 0.
RDiv(p, q) == Rat(p[1] * q[2], p[2] * q[1])
RNeg(p) == <<-p[1], p[2]>>
RAbs(p) == <<Abs(p[1]), p[2]>>
RLt(p, q) == p[1] * q[2] < q[1] * p[2]
RLe(p, q) == p[1] * q[2] <= q[1] * p[2]
RMax(p, q) == IF RLt(p, q) THEN q ELSE p

\* The integer square root of n >= 0 by bisection: the largest r with r*r <= n.
RECURSIVE ISqrtIn(_, _, _)
ISqrtIn(n, lo, hi) ==
    IF lo >= hi THEN lo
    ELSE LET mid == (lo + hi + 1) \div 2
         IN  IF mid * mid <= n THEN ISqrtIn(n, mid, hi) ELSE ISqrtIn(n, lo, mid - 1)
\* 46340 is the largest root of a 32-bit square.
ISqrt(n) == ISqrtIn(n, 0, IF n > 46340 THEN 46340 ELSE n)
IsSquare(n) == n >= 0 /\ ISqrt(n) * ISqrt(n) = n

\* The square root of p >= 0 is rational exactly on these rationals.
SqrtExact(p) == IsSquare(p[1]) /\ IsSquare(p[2])
RSqrt(p) == <<ISqrt(p[1]), ISqrt(p[2])>>

\* A float holds v exactly when the denominator is a power of two (the
\* numerators of the model are far below 2^53).
RECURSIVE IsPow2(_)
IsPow2(d) == IF d = 1 THEN TRUE ELSE IF d % 2 = 1 THEN FALSE ELSE IsPow2(d \div 2)
Dyadic(p) == IsPow2(p[2])

(***************************************************************************)
(* Python numbers: a value and a kind.                                     *)
(***************************************************************************)
F(v, k) == [v |-> v, k |-> k]
\* The int n.
I(n) == F(RInt(n), "int")
\* The number written n/d in a program: an int, a float that holds it, or the
\* float nearest to it.
Num(n, d) ==
    LET v == Rat(n, d)
    IN  F(v, IF v[2] = 1 THEN "int" ELSE IF Dyadic(v) THEN "flt" ELSE "apx")
\* The float 0.0.
F0 == F(R0, "flt")

IsZero(p) == p.v = R0
\* The float equals v.
Exact(p) == p.k # "apx"
\* A float zero (of either sign), not a residue.
ExactZero(p) == IsZero(p) /\ Exact(p)
\* The sign of the number where the model knows it: 1, -1, or 0 (unknown).
SignOf(p) ==
    IF ~IsZero(p) THEN (IF p.v[1] < 0 THEN -1 ELSE 1)
    ELSE IF p.k \in {"int", "flt"} THEN 1
    ELSE IF p.k = "neg0" THEN -1 ELSE 0
\* The float zero of sign s.
Zero(s) == F(R0, IF s = 1 THEN "flt" ELSE IF s = -1 THEN "neg0" ELSE "any0")
\* float(p)
ToFloat(p) == IF p.k = "int" THEN F(p.v, "flt") ELSE p

\* p * q.  int * int is an int; a float product that is zero has the product
\* of the signs.
FMul(p, q) ==
    LET v == RMul(p.v, q.v)
    IN  IF p.k = "int" /\ q.k = "int" THEN F(v, "int")
        ELSE IF v # R0 THEN F(v, IF Exact(p) /\ Exact(q) THEN "flt" ELSE "apx")
        ELSE IF ExactZero(p) \/ ExactZero(q) THEN Zero(SignOf(p) * SignOf(q))
        ELSE F(R0, "apx")

\* p / q for a q that is not zero: always a float.
FDiv(p, q) ==
    LET v == RDiv(p.v, q.v)
    IN  IF IsZero(p)
        THEN (IF Exact(p) THEN Zero(SignOf(p) * SignOf(q)) ELSE F(R0, "apx"))
        ELSE F(v, IF Exact(p) /\ Exact(q) /\ Dyadic(v) THEN "flt" ELSE "apx")

\* p + q.  x + (-x) = +0.0; (-0.0) + (-0.0) = -0.0; other sums of zeros are +0.0.
FAdd(p, q) ==
    LET v == RAdd(p.v, q.v)
    IN  IF p.k = "int" /\ q.k = "int" THEN F(v, "int")
        ELSE IF v # R0 THEN F(v, IF Exact(p) /\ Exact(q) THEN "flt" ELSE "apx")
        ELSE IF ~Exact(p) \/ ~Exact(q) THEN F(R0, "apx")
        ELSE IF ~IsZero(p) THEN F0
        ELSE IF SignOf(p) = 1 \/ SignOf(q) = 1 THEN F0
        ELSE IF SignOf(p) = -1 /\ SignOf(q) = -1 THEN F(R0, "neg0")
        ELSE F(R0, "any0")

\* -p for a float p.
FNeg(p) ==
    F(RNeg(p.v), IF ~IsZero(p) THEN p.k
                 ELSE IF p.k = "flt" THEN "neg0"
                 ELSE IF p.k = "neg0" THEN "flt" ELSE p.k)

\* p - q.
FSub(p, q) ==
    IF p.k = "int" /\ q.k = "int" THEN F(RSub(p.v, q.v), "int")
    ELSE FAdd(p, FNeg(ToFloat(q)))

\* math.sqrt(p) for p >= 0 whose root is rational: a float.
sqrt(p) ==
    IF IsZero(p) THEN (IF p.k = "int" THEN F0 ELSE p)
    ELSE F(RSqrt(p.v), IF Exact(p) THEN "flt" ELSE "apx")

\* p < q: the truth values the comparison can have.  Rounding decides between
\* numbers of equal value unless both are exact.
Lt(p, q) ==
    IF p.v # q.v THEN {RLt(p.v, q.v)}
    ELSE IF Exact(p) /\ Exact(q) THEN {FALSE}
    ELSE {TRUE, FALSE}

\* abs(p - q) <= 1e-09 * max(abs(p), abs(q)) on values, computed without
\* leaving the 32-bit integers: d <= m / 10^9 iff 10^9 <= floor(m / d), d > 0.
RIsClose(p, q) ==
    LET d == RAbs(RSub(p, q))
        m == RMax(RAbs(p), RAbs(q))
    IN  IF d[1] = 0 THEN TRUE
        ELSE (m[1] * d[2]) \div (d[1] * m[2]) >= 1000000000

\* math.isclose(p, q) with its defaults rel_tol = 1e-09, abs_tol = 0.0: the
\* truth values it can have.  A residue is close to a zero only if it is one.
isclose(p, q) ==
    IF p.v # q.v THEN {RIsClose(p.v, q.v)}
    ELSE IF IsZero(p) /\ (~Exact(p) \/ ~Exact(q)) THEN {TRUE, FALSE}
    ELSE {TRUE}

(***************************************************************************)
(* Angles: q * (pi/2) + a * Alpha, Alpha = atan2(4, 3).                    *)
(***************************************************************************)
Ang(q, a) == [q |-> q, a |-> a]
A0 == Ang(0, 0)
AngSub(g, h) == Ang(g.q - h.q, g.a - h.a)

\* (3 + 4i)^k for k >= 0 as <<re, im>>.
RECURSIVE GaussPow(_)
GaussPow(k) ==
    IF k = 0 THEN <<1, 0>>
    ELSE LET p == GaussPow(k - 1) IN <<3 * p[1] - 4 * p[2], 4 * p[1] + 3 * p[2]>>

RECURSIVE Pow5(_)
Pow5(k) == IF k = 0 THEN 1 ELSE 5 * Pow5(k - 1)

\* i^q * <<re, im>>.
RECURSIVE TurnQ(_, _)
TurnQ(q, c) == IF q = 0 THEN c ELSE TurnQ(q - 1, <<-c[2], c[1]>>)

\* <<cos g, sin g>> as rationals.
CosSin(g) ==
    LET k == Abs(g.a)
        p == GaussPow(k)
        u == IF g.a < 0 THEN <<p[1], -p[2]>> ELSE p
        c == TurnQ(g.q % 4, u)
    IN  <<Rat(c[1], Pow5(k)), Rat(c[2], Pow5(k))>>
\* math.cos, math.sin: the angle is itself a rounded float (math.pi is not pi),
\* so the result is approximate; where the exact value is 0 it is a residue
\* (math.cos(math.pi / 2) = 6.1e-17).
cos(g) == F(CosSin(g)[1], "apx")
sin(g) == F(CosSin(g)[2], "apx")

\* The size of an angle in units of 1e-5 quarter turns (Alpha = 0.59033...
\* quarter turns); exact when a = 0, and Alpha / pi is irrational, so the
\* comparisons below are exact for the angles of the model.
Micro(g) == 100000 * g.q + 59033 * g.a

\* The angle sorts the model represents, and the principal ones, (-pi, pi].
Angles == {Ang(q, a) : q \in -8..8, a \in -MaxTurns..MaxTurns}
Principal == {g \in Angles : Micro(g) > -200000 /\ Micro(g) <= 200000}

\* The directions of the principal angles.
DirOf == [g \in Principal |-> CosSin(g)]

Hypot2(y, x) == RAdd(RMul(x, x), RMul(y, y))
UnitDir(y, x) == LET m == RSqrt(Hypot2(y, x)) IN <<RDiv(x, m), RDiv(y, m)>>

\* math.atan2(y, x): the angles it can return (none when the angle is not one
\* the model represents).  For y # 0 the values decide.  For a zero y the
\* result is +-0 when x is positive or +0.0, and +-pi with the sign of y
\* when x is negative or -0.0; a residue y beside a zero x has no direction
\* the model knows.
atan2(y, x) ==
    IF ~IsZero(y)
    THEN (IF SqrtExact(Hypot2(y.v, x.v))
          THEN {g \in Principal : DirOf[g] = UnitDir(y.v, x.v)}
          ELSE {})
    ELSE IF IsZero(x) /\ ~Exact(y) THEN {}
    ELSE (IF SignOf(x) >= 0 THEN {A0} ELSE {})
         \cup (IF SignOf(x) <= 0 /\ SignOf(y) >= 0 THEN {Ang(2, 0)} ELSE {})
         \cup (IF SignOf(x) <= 0 /\ SignOf(y) <= 0 THEN {Ang(-2, 0)} ELSE {})

\* math.acos(c): its outcomes, [err, ang, near].  Inside (-1, 1) the value
\* decides (none when the angle is not one the model represents).  At +-1 an
\* exact c gives 0 or pi; a rounded c is a float just outside [-1, 1]
\* (ValueError), +-1 itself, or a float just inside, whose arc cosine is off
\* the exact angle by about 1e-8 (near = 1).
InUpperHalf(g) == Micro(g) >= 0 /\ Micro(g) <= 200000
AcosOk(g, near) == [err |-> "none", ang |-> g, near |-> near]
AcosError == [err |-> "ValueError", ang |-> A0, near |-> 0]
acos(c) ==
    IF RLt(R1, RAbs(c.v)) THEN {AcosError}
    ELSE IF RAbs(c.v) = R1
    THEN LET g == IF c.v = R1 THEN A0 ELSE Ang(2, 0)
         IN  IF Exact(c) THEN {AcosOk(g, 0)}
             ELSE {AcosError, AcosOk(g, 0), AcosOk(g, 1)}
    ELSE {AcosOk(g, 0) : g \in {h \in Principal : InUpperHalf(h) /\ DirOf[h][1] = c.v}}

(***************************************************************************)
(* Python values passed as scalar arguments, and the outcome of a call.    *)
(***************************************************************************)
V(x, y, z) == [x |-> x, y |-> y, z |-> z]
\* Vector(0, 0, 0)
V0 == V(I(0), I(0), I(0))
\* The values of the components.
Vals(v) == [x |-> v.x.v, y |-> v.y.v, z |-> v.z.v]
Z3 == [x |-> R0, y |-> R0, z |-> R0]
\* Every component is zero in value and at least one is a residue: the float
\* vector is zero or tiny in a direction the model does not know.
ResidueOnly(v) ==
    /\ Vals(v) = Z3
    /\ ~Exact(v.x) \/ ~Exact(v.y) \/ ~Exact(v.z)

PyNum(p) == [t |-> IF p.k = "int" THEN "int" ELSE "float", num |-> p]
PyNone == [t |-> "None", num |-> I(0)]
PyStr == [t |-> "str", num |-> I(0)]
\* A Vector passed where a scalar is expected.
PyVector == [t |-> "Vector", num |-> I(0)]

\* isinstance(k, int) or isinstance(k, float)
IsNumeric(k) == k.t \in {"int", "float"}

NoneRes(h) ==
    [err |-> "none", heap |-> h, kind |-> "none",
     num |-> I(0), ang |-> A0, near |-> 0, id |-> 0, vec |-> V0]
Raise(e, h) == [NoneRes(h) EXCEPT !.err = e]
NumRes(h, p) == [NoneRes(h) EXCEPT !.kind = "num", !.num = p]
AngRes(h, g) == [NoneRes(h) EXCEPT !.kind = "ang", !.ang = g]
BoolRes(h, b) == [NoneRes(h) EXCEPT !.kind = "bool", !.num = IF b THEN I(1) ELSE I(0)]
\* A returned Vector: the instance id, with components vec.
VecRes(h, id, v) == [NoneRes(h) EXCEPT !.kind = "vec", !.id = id, !.vec = v]
Failed(r) == r.err # "none"

\* Vector.__init__: a new instance, distinct from every live one.
Vector(h, x, y, z) == VecRes(h, Len(h) + 1, V(x, y, z))

\* Vector.__iter__: the components in the order x, y, z.
__iter__(v) == <<v.x, v.y, v.z>>

\* sum(...) of a three-element sequence: 0 + s[1] + s[2] + s[3].
Sum3(s) == FAdd(FAdd(FAdd(I(0), s[1]), s[2]), s[3])

(***************************************************************************)
(* Vector's methods.  h is the heap, i the instance the method is called   *)
(* on (self), o the components of the other operand.                       *)
(***************************************************************************)
dot(h, i, o) ==
    LET s == __iter__(h[i])
        t == __iter__(o)
    IN  NumRes(h, Sum3([n \in 1..3 |-> FMul(s[n], t[n])]))

__matmul__(h, i, o) == dot(h, i, o)

\* The magnitude getter needs math.sqrt to have a rational result.
HasMagnitude(v) == SqrtExact(dot(<<v>>, 1, v).num.v)

magnitude(h, i) == NumRes(h, sqrt(dot(h, i, h[i]).num))

magnitude_sq(h, i) == dot(h, i, h[i])

__abs__(h, i) == magnitude(h, i)

\* Faulty variants of the magnitude setter: one scales by |new_magnitude|, one
\* computes z from y.
magnitude_setter_abs(h, i, new_magnitude) ==
    LET current_magnitude == magnitude(h, i).num
        s == h[i]
        a == F(RAbs(new_magnitude.v), new_magnitude.k)
    IN  IF IsZero(current_magnitude) THEN Raise("ZeroDivisionError", h)
        ELSE NoneRes([h EXCEPT ![i] =
                 V(FMul(FDiv(s.x, current_magnitude), a),
                   FMul(FDiv(s.y, current_magnitude), a),
                   FMul(FDiv(s.z, current_magnitude), a))])
magnitude_setter_yz(h, i, new_magnitude) ==
    LET current_magnitude == magnitude(h, i).num
        s == h[i]
    IN  IF IsZero(current_magnitude) THEN Raise("ZeroDivisionError", h)
        ELSE NoneRes([h EXCEPT ![i] =
                 V(FMul(FDiv(s.x, current_magnitude), new_magnitude),
                   FMul(FDiv(s.y, current_magnitude), new_magnitude),
                   FMul(FDiv(s.y, current_magnitude), new_magnitude))])

\* @magnitude.setter: the division by a zero magnitude raises before any
\* component is assigned.  (A magnitude of value 0 is the float 0.0: no
\* instance of the model is made of residues alone.)
magnitude_setter(h, i, new_magnitude) ==
    LET current_magnitude == magnitude(h, i).num
        s == h[i]
    IN  IF IsZero(current_magnitude) THEN Raise("ZeroDivisionError", h)
        ELSE NoneRes([h EXCEPT ![i] =
                 V(FMul(FDiv(s.x, current_magnitude), new_magnitude),
                   FMul(FDiv(s.y, current_magnitude), new_magnitude),
                   FMul(FDiv(s.z, current_magnitude), new_magnitude))])

\* @magnitude_sq.setter: math.sqrt raises ValueError on a negative number.
magnitude_sq_setter(h, i, new_magnitude_sq) ==
    IF RLt(new_magnitude_sq.v, R0) THEN Raise("ValueError", h)
    ELSE magnitude_setter(h, i, sqrt(new_magnitude_sq))

\* A variant of normalize that leaves the zero vector alone.
normalize_guarded(h, i) ==
    IF Vals(h[i]) = Z3 THEN NoneRes(h) ELSE magnitude_setter(h, i, I(1))

normalize(h, i) == magnitude_setter(h, i, I(1))

\* A faulty variant of limit: an omitted bound is 0.
limit_default_zero(h, i, upper_limit, lower_limit) ==
    LET m == magnitude(h, i).num
        upper == IF upper_limit.t = "None" THEN I(0) ELSE upper_limit.num
        lower == IF lower_limit.t = "None" THEN I(0) ELSE lower_limit.num
    IN  (IF TRUE \in Lt(m, lower) THEN {magnitude_setter(h, i, lower)} ELSE {})
        \cup (IF FALSE \in Lt(m, lower) /\ TRUE \in Lt(upper, m)
              THEN {magnitude_setter(h, i, upper)} ELSE {})
        \cup (IF FALSE \in Lt(m, lower) /\ FALSE \in Lt(upper, m)
              THEN {NoneRes(h)} ELSE {})

\* limit(upper_limit=None, lower_limit=None): its outcomes.  An omitted bound
\* is the magnitude itself, which is not less than itself; against a given
\* bound of the same value, rounding in the magnitude decides.
limit(h, i, upper_limit, lower_limit) ==
    LET m == magnitude(h, i).num
        below == IF lower_limit.t = "None" THEN {FALSE} ELSE Lt(m, lower_limit.num)
        above == IF upper_limit.t = "None" THEN {FALSE} ELSE Lt(upper_limit.num, m)
    IN  (IF TRUE \in below THEN {magnitude_setter(h, i, lower_limit.num)} ELSE {})
        \cup (IF FALSE \in below /\ TRUE \in above
              THEN {magnitude_setter(h, i, upper_limit.num)} ELSE {})
        \cup (IF FALSE \in below /\ FALSE \in above THEN {NoneRes(h)} ELSE {})

\* The angle getter: its outcomes.
angle(h, i) ==
    IF ~IsZero(h[i].z) THEN {Raise("ValueError", h)}
    ELSE (IF Exact(h[i].z) THEN {} ELSE {Raise("ValueError", h)})
         \cup {AngRes(h, g) : g \in atan2(h[i].y, h[i].x)}

\* A faulty variant of rotate: the new y is computed from the new x.
rotate_sequential(h, i, theta) ==
    LET s == h[i]
        x == FSub(FMul(s.x, cos(theta)), FMul(s.y, sin(theta)))
        y == FAdd(FMul(x, sin(theta)), FMul(s.y, cos(theta)))
    IN  NoneRes([h EXCEPT ![i] = V(x, y, s.z)])

\* The new y is computed from the old x.
rotate(h, i, theta) ==
    LET s == h[i]
        x == FSub(FMul(s.x, cos(theta)), FMul(s.y, sin(theta)))
        y == FAdd(FMul(s.x, sin(theta)), FMul(s.y, cos(theta)))
    IN  NoneRes([h EXCEPT ![i] = V(x, y, s.z)])

\* A faulty variant of the angle setter: a 3D vector is turned by theta.
angle_setter_unchecked(h, i, theta) ==
    IF ~IsZero(h[i].z) THEN {rotate(h, i, theta)}
    ELSE {rotate(h, i, AngSub(theta, cur.ang)) : cur \in angle(h, i)}

\* @angle.setter: self.rotate(theta - self.angle), for each angle the getter
\* can return.
angle_setter(h, i, theta) ==
    {IF Failed(cur) THEN cur ELSE rotate(h, i, AngSub(theta, cur.ang)) : cur \in angle(h, i)}

\* math.acos((self @ other) / (self.magnitude * other.magnitude)): the
\* outcomes.
AngleBetweenDen(h, i, o) == FMul(magnitude(h, i).num, magnitude(<<o>>, 1).num)
angle_between(h, i, o) ==
    LET den == AngleBetweenDen(h, i, o)
    IN  IF IsZero(den) THEN {Raise("ZeroDivisionError", h)}
        ELSE {IF a.err # "none" THEN Raise(a.err, h)
              ELSE [AngRes(h, a.ang) EXCEPT !.near = a.near] :
                 a \in acos(FDiv(__matmul__(h, i, o).num, den))}

__add__(h, i, o) ==
    Vector(h, FAdd(h[i].x, o.x), FAdd(h[i].y, o.y), FAdd(h[i].z, o.z))

__sub__(h, i, o) ==
    Vector(h, FSub(h[i].x, o.x), FSub(h[i].y, o.y), FSub(h[i].z, o.z))

\* A faulty variant of __mul__: no isinstance check.
__mul__unchecked(h, i, k) ==
    Vector(h, FMul(h[i].x, k.num), FMul(h[i].y, k.num), FMul(h[i].z, k.num))

__mul__(h, i, k) ==
    IF IsNumeric(k)
    THEN Vector(h, FMul(h[i].x, k.num), FMul(h[i].y, k.num), FMul(h[i].z, k.num))
    ELSE Raise("TypeError", h)

__rmul__(h, i, other) == __mul__(h, i, other)

\* -1 * self: int.__mul__ declines a Vector, so Vector.__rmul__ is called.
__neg__(h, i) == __rmul__(h, i, PyNum(I(-1)))

\* 1 / other, as Python evaluates it.
Reciprocal(h, other) ==
    IF ~IsNumeric(other) THEN Raise("TypeError", h)
    ELSE IF IsZero(other.num) THEN Raise("ZeroDivisionError", h)
    ELSE NumRes(h, FDiv(I(1), other.num))

\* self * (1 / other)
__truediv__(h, i, other) ==
    LET inv == Reciprocal(h, other)
    IN  IF Failed(inv) THEN inv ELSE __mul__(h, i, PyNum(inv.num))

cross(h, i, o) ==
    LET s == h[i]
    IN  Vector(h, FSub(FMul(s.y, o.z), FMul(s.z, o.y)),
                  FSub(FMul(s.z, o.x), FMul(s.x, o.z)),
                  FSub(FMul(s.x, o.y), FMul(s.y, o.x)))

\* utils.lerp(start, stop, amount)
LerpScalar(start, stop, amount) == FAdd(start, FMul(amount, FSub(stop, start)))

lerp(h, i, o, amount) ==
    LET s == __iter__(h[i])
        t == __iter__(o)
    IN  Vector(h, LerpScalar(s[1], t[1], amount), LerpScalar(s[2], t[2], amount),
                  LerpScalar(s[3], t[3], amount))

\* A faulty variant of copy: it returns self.
copy_alias(h, i) == VecRes(h, i, h[i])

copy(h, i) ==
    LET components == __iter__(h[i])
    IN  Vector(h, components[1], components[2], components[3])

\* all(math.isclose(si, oi) ...): its outcomes.  j is the identity of other
\* (0 for a Vector that is no live instance): a float is close to itself.
__eq__(h, i, j, o) ==
    LET s == __iter__(h[i])
        t == __iter__(o)
        c == [n \in 1..3 |-> IF j = i THEN {TRUE} ELSE isclose(s[n], t[n])]
    IN  (IF \A n \in 1..3 : TRUE \in c[n] THEN {BoolRes(h, TRUE)} ELSE {})
        \cup (IF \E n \in 1..3 : FALSE \in c[n] THEN {BoolRes(h, FALSE)} ELSE {})

\* Assignment to the attribute x, y or z.
SetAttr(h, i, name, value) ==
    NoneRes([h EXCEPT ![i] =
        CASE name = "x" -> [@ EXCEPT !.x = value]
          [] name = "y" -> [@ EXCEPT !.y = value]
          [] name = "z" -> [@ EXCEPT !.z = value]])

\* The class methods work on an instance of their own (vec) until they return
\* it; x, y, z are the values random.random() returned.
random_2D(h, x, y) ==
    LET vec == Vector(h, x, y, I(0))
        n == normalize(Append(h, vec.vec), vec.id)
    IN  IF Failed(n) THEN Raise(n.err, h) ELSE VecRes(h, vec.id, n.heap[vec.id])

random_3D(h, x, y, z) ==
    LET vec == Vector(h, x, y, z)
        n == normalize(Append(h, vec.vec), vec.id)
    IN  IF Failed(n) THEN Raise(n.err, h) ELSE VecRes(h, vec.id, n.heap[vec.id])

\* A faulty variant of from_angle: the random vector is turned by theta.
from_angle_turned(h, theta, x, y) ==
    LET vec == random_2D(h, x, y)
        a == rotate(Append(h, vec.vec), vec.id, theta)
    IN  IF Failed(vec) THEN {vec} ELSE {VecRes(h, vec.id, a.heap[vec.id])}

\* from_angle: its outcomes, one for each outcome of the angle write.
from_angle(h, theta, x, y) ==
    LET vec == random_2D(h, x, y)
    IN  IF Failed(vec) THEN {vec}
        ELSE {IF Failed(a) THEN Raise(a.err, h) ELSE VecRes(h, vec.id, a.heap[vec.id]) :
                 a \in angle_setter(Append(h, vec.vec), vec.id, theta)}

(***************************************************************************)
(* Inputs.                                                                 *)
(***************************************************************************)
Half == Ang(1, 0)         \* pi / 2
Pi == Ang(2, 0)
Alpha == Ang(0, 1)        \* atan2(4, 3)

\* Constructor arguments (ints).
Vecs0 == {V0, V(I(3), I(4), I(0)), V(I(2), I(3), I(6))}
\* Attribute assignments: <<name, value>>.
Assignments == {<<"x", I(0)>>, <<"y", I(0)>>, <<"z", I(0)>>, <<"z", I(12)>>}
\* Assigned angles; [0, 2 pi) holds all of them.
Thetas == {Half, Pi, Ang(3, 0), Alpha}
\* Rotation angles.
Turns == {Half, Pi, Alpha}
\* Assigned magnitudes and squared magnitudes.
Mags == {I(-1), I(0), I(14)}
MagSqs == {I(-1), I(4)}
\* Arguments of limit.
Uppers == {PyNone, PyNum(I(-2)), PyNum(I(1)), PyNum(I(2))}
Lowers == {PyNone, PyNum(I(1)), PyNum(I(2))}
\* Right-hand operands of *, / and left-hand operands of *.
Scalars == {PyNum(I(0)), PyNum(F0), PyNum(I(2)), PyStr, PyVector}
\* Interpolation amounts.
Amounts == {Num(1, 2), I(2)}
\* Values of random.random(), floats in [0, 1): the pairs and triples drawn.
Draws2 == {<<F0, F0>>, <<F0, Num(1, 2)>>, <<Num(3, 8), Num(1, 2)>>}
Draws3 == {<<F0, F0, F0>>, <<F0, F0, Num(1, 2)>>, <<Num(1, 4), Num(1, 2), Num(1, 2)>>}

\* The smaller input sets of the three-object scenario.
FewVecs == {V(I(3), I(4), I(0)), V(I(2), I(3), I(6))}
FewAssignments == {<<"x", I(0)>>, <<"z", I(12)>>}
FewThetas == {Half}
FewMags == {I(14)}
FewMagSqs == {I(4)}
FewLimits == {PyNum(I(1))}
FewScalars == {PyNum(I(2)), PyStr}
FewAmounts == {Num(1, 2)}

(***************************************************************************)
(* Representable outcomes.                                                 *)
(***************************************************************************)
RepNum(p) == Abs(p.v[1]) <= MaxAbs * p.v[2] /\ p.v[2] <= MaxDen
RepVec(v) == RepNum(v.x) /\ RepNum(v.y) /\ RepNum(v.z)
RepAng(g) == g \in Angles
Rep(r) ==
    /\ \A n \in DOMAIN r.heap : RepVec(r.heap[n]) /\ ~ResidueOnly(r.heap[n])
    /\ RepVec(r.vec)
    /\ RepAng(r.ang)

(***************************************************************************)
(* The state: the live instances, and the last call with its outcome.      *)
(***************************************************************************)
NoCall ==
    [op |-> "none", self |-> 0, other |-> 0, o |-> V0,
     a1 |-> PyNone, a2 |-> PyNone, theta |-> A0]
NoRet == [kind |-> "none", num |-> I(0), ang |-> A0, near |-> 0, id |-> 0, vec |-> V0]

\* A returned new instance stays live while the program has a name for it
\* (cap names).  Once every name is bound, a call uses one unit of fuel when
\* fuel is counted (fuel >= 0).
Store(r) ==
    IF r.kind = "vec" /\ r.id = Len(r.heap) + 1 /\ Len(r.heap) < cap
    THEN Append(r.heap, r.vec)
    ELSE r.heap

\* The call name(...) on self = i with the other operand o (instance j), the
\* scalar arguments a1, a2 and the angle theta has the outcome r.
DoCall(name, i, j, o, a1, a2, theta, r) ==
    /\ call.op = "none"
    /\ Rep(r)
    /\ \A n \in DOMAIN Store(r) : ~ResidueOnly(Store(r)[n])
    /\ before' = heap
    /\ heap' = Store(r)
    /\ call' = [op |-> name, self |-> i, other |-> j, o |-> o,
                a1 |-> a1, a2 |-> a2, theta |-> theta]
    /\ ret' = [kind |-> r.kind, num |-> r.num, ang |-> r.ang, near |-> r.near,
               id |-> r.id, vec |-> r.vec]
    /\ err' = r.err
    /\ cap' = cap
    /\ fuel' = IF fuel > 0 /\ Len(heap) = cap THEN fuel - 1 ELSE fuel

\* No call is in progress.
Idle == call.op = "none"

Objs == DOMAIN heap
\* The other operand of a binary method: a live instance j, or (j = 0) a Vector
\* built for the call from one of vs.
Operands(vs) == {<<j, heap[j]>> : j \in Objs} \cup {<<0, v>> : v \in vs}

Construct(vs) ==
    Idle /\ \E v \in vs :
        DoCall("Vector", 0, 0, V0, PyNone, PyNone, A0, Vector(heap, v.x, v.y, v.z))

AssignAttr(assignments) ==
    Idle /\ \E i \in Objs, nv \in assignments :
        DoCall("set_" \o nv[1], i, 0, V0, PyNum(nv[2]), PyNone, A0,
               SetAttr(heap, i, nv[1], nv[2]))

GetAngle ==
    Idle /\ \E i \in Objs : \E r \in angle(heap, i) :
        DoCall("angle", i, 0, V0, PyNone, PyNone, A0, r)

SetAngle(thetas) ==
    Idle /\ \E i \in Objs, theta \in thetas : \E r \in angle_setter(heap, i, theta) :
        DoCall("angle_setter", i, 0, V0, PyNone, PyNone, theta, r)

Rotate(thetas) ==
    Idle /\ \E i \in Objs, theta \in thetas :
        DoCall("rotate", i, 0, V0, PyNone, PyNone, theta, rotate(heap, i, theta))

AngleBetween(vs) ==
    Idle /\ \E i \in Objs, p \in Operands(vs) :
        /\ HasMagnitude(heap[i]) /\ HasMagnitude(p[2])
        /\ \E r \in angle_between(heap, i, p[2]) :
              DoCall("angle_between", i, p[1], p[2], PyNone, PyNone, A0, r)

GetMagnitude ==
    Idle /\ \E i \in Objs :
        /\ HasMagnitude(heap[i])
        /\ DoCall("magnitude", i, 0, V0, PyNone, PyNone, A0, magnitude(heap, i))

SetMagnitude(mags) ==
    Idle /\ \E i \in Objs, m \in mags :
        /\ HasMagnitude(heap[i])
        /\ DoCall("magnitude_setter", i, 0, V0, PyNum(m), PyNone, A0,
                  magnitude_setter(heap, i, m))

GetMagnitudeSq ==
    Idle /\ \E i \in Objs :
        DoCall("magnitude_sq", i, 0, V0, PyNone, PyNone, A0, magnitude_sq(heap, i))

SetMagnitudeSq(msqs) ==
    Idle /\ \E i \in Objs, m \in msqs :
        /\ IF RLt(m.v, R0) THEN TRUE ELSE SqrtExact(m.v) /\ HasMagnitude(heap[i])
        /\ DoCall("magnitude_sq_setter", i, 0, V0, PyNum(m), PyNone, A0,
                  magnitude_sq_setter(heap, i, m))

Normalize ==
    Idle /\ \E i \in Objs :
        /\ HasMagnitude(heap[i])
        /\ DoCall("normalize", i, 0, V0, PyNone, PyNone, A0, normalize(heap, i))

Limit(uppers, lowers) ==
    Idle /\ \E i \in Objs, up \in uppers, lo \in lowers :
        /\ HasMagnitude(heap[i])
        /\ \E r \in limit(heap, i, up, lo) :
              DoCall("limit", i, 0, V0, up, lo, A0, r)

Add(vs) ==
    Idle /\ \E i \in Objs, p \in Operands(vs) :
        DoCall("__add__", i, p[1], p[2], PyNone, PyNone, A0, __add__(heap, i, p[2]))

Sub(vs) ==
    Idle /\ \E i \in Objs, p \in Operands(vs) :
        DoCall("__sub__", i, p[1], p[2], PyNone, PyNone, A0, __sub__(heap, i, p[2]))

Mul(ks) ==
    Idle /\ \E i \in Objs, k \in ks :
        DoCall("__mul__", i, 0, V0, k, PyNone, A0, __mul__(heap, i, k))

RMulCall(ks) ==
    Idle /\ \E i \in Objs, k \in ks :
        DoCall("__rmul__", i, 0, V0, k, PyNone, A0, __rmul__(heap, i, k))

Neg ==
    Idle /\ \E i \in Objs :
        DoCall("__neg__", i, 0, V0, PyNone, PyNone, A0, __neg__(heap, i))

TrueDiv(ks) ==
    Idle /\ \E i \in Objs, k \in ks :
        DoCall("__truediv__", i, 0, V0, k, PyNone, A0, __truediv__(heap, i, k))

Cross(vs) ==
    Idle /\ \E i \in Objs, p \in Operands(vs) :
        DoCall("cross", i, p[1], p[2], PyNone, PyNone, A0, cross(heap, i, p[2]))

Dot(vs) ==
    Idle /\ \E i \in Objs, p \in Operands(vs) :
        DoCall("dot", i, p[1], p[2], PyNone, PyNone, A0, dot(heap, i, p[2]))

Lerp(vs, amounts) ==
    Idle /\ \E i \in Objs, p \in Operands(vs), amount \in amounts :
        DoCall("lerp", i, p[1], p[2], PyNum(amount), PyNone, A0,
               lerp(heap, i, p[2], amount))

Copy ==
    Idle /\ \E i \in Objs :
        DoCall("copy", i, 0, V0, PyNone, PyNone, A0, copy(heap, i))

Eq(vs) ==
    Idle /\ \E i \in Objs, p \in Operands(vs) : \E r \in __eq__(heap, i, p[1], p[2]) :
        DoCall("__eq__", i, p[1], p[2], PyNone, PyNone, A0, r)

\* call.o records the values drawn.
Random2D(draws) ==
    Idle /\ \E d \in draws :
        /\ HasMagnitude(V(d[1], d[2], I(0)))
        /\ DoCall("random_2D", 0, 0, V(d[1], d[2], I(0)), PyNone, PyNone, A0,
                  random_2D(heap, d[1], d[2]))

Random3D(draws) ==
    Idle /\ \E d \in draws :
        /\ HasMagnitude(V(d[1], d[2], d[3]))
        /\ DoCall("random_3D", 0, 0, V(d[1], d[2], d[3]), PyNone, PyNone, A0,
                  random_3D(heap, d[1], d[2], d[3]))

FromAngle(thetas, draws) ==
    Idle /\ \E theta \in thetas, d \in draws :
        /\ HasMagnitude(V(d[1], d[2], I(0)))
        /\ \E r \in from_angle(heap, theta, d[1], d[2]) :
              DoCall("from_angle", 0, 0, V(d[1], d[2], I(0)), PyNone, PyNone, theta, r)

\* The caller takes the outcome of the call; the instances stay as they are.
Return ==
    /\ call.op # "none"
    /\ call' = NoCall
    /\ ret' = NoRet
    /\ err' = "none"
    /\ before' = <<>>
    /\ UNCHANGED <<heap, cap, fuel>>

(***************************************************************************)
(* Spec: one named instance, every method, any order.                      *)
(***************************************************************************)
Init ==
    /\ heap = <<>>
    /\ before = <<>>
    /\ call = NoCall
    /\ ret = NoRet
    /\ err = "none"
    /\ cap = 1
    /\ fuel = -1

Next ==
    \/ Construct(Vecs0)
    \/ AssignAttr(Assignments)
    \/ GetAngle
    \/ SetAngle(Thetas)
    \/ Rotate(Turns)
    \/ AngleBetween(Vecs0)
    \/ GetMagnitude
    \/ SetMagnitude(Mags)
    \/ GetMagnitudeSq
    \/ SetMagnitudeSq(MagSqs)
    \/ Normalize
    \/ Limit(Uppers, Lowers)
    \/ Add(Vecs0)
    \/ Sub(Vecs0)
    \/ Mul(Scalars)
    \/ RMulCall(Scalars)
    \/ Neg
    \/ TrueDiv(Scalars)
    \/ Cross(Vecs0)
    \/ Dot(Vecs0)
    \/ Lerp(Vecs0, Amounts)
    \/ Copy
    \/ Eq(Vecs0)
    \/ Random2D(Draws2)
    \/ Random3D(Draws3)
    \/ FromAngle(Thetas, Draws2)
    \/ Return

Spec == Init /\ [][Next]_vars

(***************************************************************************)
(* SpecHeap: a program with three names.  It binds them to new instances   *)
(* (constructed, or returned by a method called on the instances bound so  *)
(* far), then mutates any of the three in place, MaxMut times.             *)
(***************************************************************************)
InitHeap ==
    /\ heap = <<>>
    /\ before = <<>>
    /\ call = NoCall
    /\ ret = NoRet
    /\ err = "none"
    /\ cap = 3
    /\ fuel = MaxMut

Binding == Len(heap) < cap
Mutating == Len(heap) = cap /\ fuel > 0

NextHeap ==
    \/ Binding /\ Construct(FewVecs)
    \/ Binding /\ Add({})
    \/ Binding /\ Sub({})
    \/ Binding /\ Mul(FewScalars)
    \/ Binding /\ RMulCall(FewScalars)
    \/ Binding /\ Neg
    \/ Binding /\ TrueDiv(FewScalars)
    \/ Binding /\ Cross({})
    \/ Binding /\ Dot({})
    \/ Binding /\ Lerp({}, FewAmounts)
    \/ Binding /\ Copy
    \/ Mutating /\ AssignAttr(FewAssignments)
    \/ Mutating /\ SetAngle(FewThetas)
    \/ Mutating /\ Rotate(FewThetas)
    \/ Mutating /\ SetMagnitude(FewMags)
    \/ Mutating /\ SetMagnitudeSq(FewMagSqs)
    \/ Mutating /\ Normalize
    \/ Mutating /\ Limit(FewLimits, {PyNone})
    \/ Return

SpecHeap == InitHeap /\ [][NextHeap]_vars

(***************************************************************************)
(* What the claims speak of: the call that has just returned.  The claims  *)
(* compare the values of the components, computed without rounding.        *)
(***************************************************************************)
Called == call.op # "none"
HasSelf == Called /\ call.self \in DOMAIN before
\* self before and after the call, and the values of its components.
Old == before[call.self]
New == heap[call.self]
OldV == Vals(Old)
NewV == Vals(New)
Completed == err = "none"
\* The Euclidean norm of the values v (where it is rational).
NormOf(v) == RSqrt(RAdd(RAdd(RMul(v.x, v.x), RMul(v.y, v.y)), RMul(v.z, v.z)))
\* The values v scaled by the rational f.
Scale(v, f) == [x |-> RMul(v.x, f), y |-> RMul(v.y, f), z |-> RMul(v.z, f)]
\* The instances live before the call are as they were.
Untouched == \A n \in DOMAIN before : heap[n] = before[n]
\* ... all but self.
OthersUntouched == \A n \in DOMAIN before : n # call.self => heap[n] = before[n]

ValueOps ==
    {"__add__", "__sub__", "__mul__", "__rmul__", "__truediv__", "__neg__",
     "cross", "dot", "lerp", "copy"}
InPlaceOps ==
    {"set_x", "set_y", "set_z", "rotate", "normalize", "limit",
     "angle_setter", "magnitude_setter", "magnitude_sq_setter"}

(***************************************************************************)
(* C1.  Value semantics.                                                   *)
(***************************************************************************)
\* C1: add, subtract, multiply (either order), divide, negate, cross, dot, lerp
\* and copy leave every live instance's components unchanged, and a Vector they
\* return is a new instance (its identity is that of no instance live before
\* the call); an in-place mutation (attribute assignment, rotate, normalize,
\* limit, angle / magnitude writes) changes no instance but the one it is
\* called on; and copy(v) == v, the copy having the very components of v.
C1_ValueSemantics ==
    /\ (Called /\ call.op \in ValueOps) =>
          /\ Untouched
          /\ ret.kind = "vec" =>
                /\ ret.id \notin DOMAIN before
                /\ ret.id \in DOMAIN heap
                /\ heap[ret.id] = ret.vec
    /\ (Called /\ call.op \in InPlaceOps) => OthersUntouched
    /\ (Called /\ call.op = "copy") =>
          /\ ret.kind = "vec"
          /\ ret.vec = Old
          /\ BoolRes(<<ret.vec>>, TRUE) \in __eq__(<<ret.vec>>, 1, 0, Old)

\* C1 witness: a + b with a and b two instances has returned a third, and a, b
\* are as before.
C1_Witness ==
    /\ call.op = "__add__" /\ call.self = 1 /\ call.other = 2
    /\ ret.kind = "vec" /\ ret.id = 3 /\ Len(heap) = 3
    /\ heap[1] = before[1] /\ heap[2] = before[2]
    /\ heap[3] # heap[1] /\ heap[3] # heap[2]

(***************************************************************************)
(* C2.  The angle of a 3D vector.                                          *)
(***************************************************************************)
\* g is atan2(y, x): the angle in [-pi, pi] along which (x, y) lies.  On the
\* negative x axis it is pi, or - pi for a y that is -0.0 or a negative
\* residue; for x and y both zero it is 0 for x = +0.0 and +-pi for x = -0.0.
IsAtan2(g, y, x) ==
    /\ g \in Principal \cup {Ang(-2, 0)}
    /\ IF IsZero(x) /\ IsZero(y)
       THEN /\ g \in {A0, Ang(2, 0), Ang(-2, 0)}
            /\ g = A0 => SignOf(x) >= 0
            /\ g # A0 => SignOf(x) <= 0
       ELSE LET m == RSqrt(Hypot2(y.v, x.v))
            IN  x.v = RMul(m, CosSin(g)[1]) /\ y.v = RMul(m, CosSin(g)[2])
    /\ g = Ang(-2, 0) => SignOf(y) <= 0
    /\ (g = Ang(2, 0) /\ IsZero(y)) => SignOf(y) >= 0

\* C2: with z # 0, reading angle and writing angle = theta both raise
\* ValueError and leave x, y, z as they were; with z = 0 the read succeeds and
\* returns atan2(y, x).
C2_AngleDomain ==
    /\ (HasSelf /\ call.op \in {"angle", "angle_setter"} /\ ~IsZero(Old.z)) =>
          err = "ValueError" /\ ret.kind = "none" /\ Untouched
    /\ (HasSelf /\ call.op = "angle" /\ ExactZero(Old.z)) =>
          /\ Completed /\ ret.kind = "ang" /\ Untouched
          /\ IsAtan2(ret.ang, Old.y, Old.x)

\* C2 witness: an angle write on a vector with z # 0 has raised ValueError.
C2_Witness ==
    /\ HasSelf /\ call.op = "angle_setter" /\ ~IsZero(Old.z)
    /\ err = "ValueError" /\ New = Old

(***************************************************************************)
(* C3.  Scalar multiplication and its type error.                          *)
(***************************************************************************)
\* C3: for numeric k, v * k and k * v both return (v.x*k, v.y*k, v.z*k); for a
\* non-numeric k (a Vector among them) multiplication raises TypeError, returns
\* nothing and leaves v unchanged; v / k for a non-numeric k raises TypeError.
C3_ScalarMul ==
    /\ (HasSelf /\ call.op \in {"__mul__", "__rmul__"} /\ IsNumeric(call.a1)) =>
          /\ Completed /\ ret.kind = "vec"
          /\ Vals(ret.vec) = Scale(OldV, call.a1.num.v)
    /\ (HasSelf /\ call.op \in {"__mul__", "__rmul__"} /\ ~IsNumeric(call.a1)) =>
          err = "TypeError" /\ ret.kind = "none" /\ Untouched
    /\ (HasSelf /\ call.op = "__truediv__" /\ ~IsNumeric(call.a1)) =>
          err = "TypeError" /\ ret.kind = "none" /\ Untouched

\* C3 witness: a Vector times a Vector has raised TypeError.
C3_Witness ==
    /\ HasSelf /\ call.op = "__mul__" /\ call.a1 = PyVector
    /\ err = "TypeError" /\ ~IsZero(Old.z)

(***************************************************************************)
(* C4.  The magnitude write.                                               *)
(***************************************************************************)
\* C4 as claimed: on a vector of nonzero magnitude, after magnitude = m the
\* magnitude read back equals m and each component equals the old component
\* times m / old magnitude, for every m.
C4_Original ==
    (HasSelf /\ call.op = "magnitude_setter" /\ OldV # Z3) =>
        /\ Completed
        /\ NormOf(NewV) = call.a1.num.v
        /\ NewV = Scale(OldV, RDiv(call.a1.num.v, NormOf(OldV)))

\* C4 amended: on a vector of nonzero magnitude, after magnitude = m each
\* component equals the old component times m / old magnitude, and the
\* magnitude read back equals |m|: m itself for m >= 0, -m (the vector is
\* reversed) for m < 0.
C4_MagnitudeWrite ==
    (HasSelf /\ call.op = "magnitude_setter" /\ OldV # Z3) =>
        /\ Completed
        /\ NormOf(NewV) = RAbs(call.a1.num.v)
        /\ NewV = Scale(OldV, RDiv(call.a1.num.v, NormOf(OldV)))
        /\ OthersUntouched

\* C4 witness: the doctest, Vector(2, 3, 6) with magnitude = 14 is (4, 6, 12).
C4_Witness ==
    /\ HasSelf /\ call.op = "magnitude_setter" /\ Completed
    /\ Old = V(I(2), I(3), I(6)) /\ call.a1 = PyNum(I(14))
    /\ NewV = Vals(V(I(4), I(6), I(12)))

(***************************************************************************)
(* C5.  limit.                                                             *)
(***************************************************************************)
\* The bounds limit works with: an omitted bound is the magnitude m.
UpperOf(m) == IF call.a1.t = "None" THEN m ELSE call.a1.num.v
LowerOf(m) == IF call.a2.t = "None" THEN m ELSE call.a2.num.v
\* w is v stretched by a positive factor.
SameDirection(v, w) == w = Scale(v, RDiv(NormOf(w), NormOf(v))) /\ w # Z3
\* The magnitude limit computes is a rounded float whose value is the lower
\* bound given: it may compare below the bound or not.
AtLower(m) ==
    /\ call.a2.t # "None"
    /\ m = call.a2.num.v
    /\ ~Exact(magnitude(before, call.self).num)

\* C5 as claimed: for a vector of nonzero magnitude m, limit(upper, lower) makes
\* the magnitude lower if m < lower, else upper if m > upper, else changes
\* nothing; limit() changes nothing; limit(upper) never increases the
\* magnitude; and if 0 < lower <= upper the magnitude ends in [lower, upper]
\* with the direction preserved.
C5_Original ==
    (HasSelf /\ call.op = "limit" /\ OldV # Z3) =>
        LET m == NormOf(OldV)
            up == UpperOf(m)
            lo == LowerOf(m)
        IN  /\ Completed
            /\ RLt(m, lo) => NormOf(NewV) = lo
            /\ (~RLt(m, lo) /\ RLt(up, m)) => NormOf(NewV) = up
            /\ (~RLt(m, lo) /\ ~RLt(up, m)) => NewV = OldV
            /\ (call.a1.t = "None" /\ call.a2.t = "None") => NewV = OldV
            /\ call.a2.t = "None" => RLe(NormOf(NewV), m)
            /\ (RLt(R0, lo) /\ RLe(lo, up)) =>
                  /\ RLe(lo, NormOf(NewV)) /\ RLe(NormOf(NewV), up)
                  /\ SameDirection(OldV, NewV)

\* C5 amended: as claimed, except that when m > upper (and not m < lower) the
\* components are scaled by upper / m, so the magnitude becomes |upper| (the
\* vector is reversed when upper < 0); that a computed magnitude which is
\* rounded and equal in value to the lower bound may count as below it, the
\* vector then keeping its magnitude lower instead of being scaled to upper;
\* and that limit(upper) never increases the magnitude when upper >= 0.
C5_Limit ==
    (HasSelf /\ call.op = "limit" /\ OldV # Z3) =>
        LET m == NormOf(OldV)
            up == UpperOf(m)
            lo == LowerOf(m)
        IN  /\ Completed
            /\ OthersUntouched
            /\ RLt(m, lo) => NormOf(NewV) = lo /\ SameDirection(OldV, NewV)
            /\ (~RLt(m, lo) /\ RLt(up, m)) =>
                  \/ NormOf(NewV) = RAbs(up) /\ NewV = Scale(OldV, RDiv(up, m))
                  \/ AtLower(m) /\ NewV = OldV
            /\ (~RLt(m, lo) /\ ~RLt(up, m)) => NewV = OldV
            /\ (call.a1.t = "None" /\ call.a2.t = "None") => New = Old
            /\ (call.a2.t = "None" /\ RLe(R0, up)) => RLe(NormOf(NewV), m)
            /\ (RLt(R0, lo) /\ RLe(lo, up)) =>
                  /\ RLe(lo, NormOf(NewV)) /\ RLe(NormOf(NewV), up)
                  /\ SameDirection(OldV, NewV)

\* C5 witness: limit(upper_limit=-2) on a unit vector has reversed it and made
\* its magnitude 2.
C5_Witness ==
    /\ HasSelf /\ call.op = "limit" /\ Completed
    /\ call.a1 = PyNum(I(-2)) /\ call.a2 = PyNone
    /\ NormOf(OldV) = R1 /\ NormOf(NewV) = RInt(2)
    /\ NewV = Scale(OldV, RInt(-2))

(***************************************************************************)
(* C6.  Angle write / read round trip.                                     *)
(***************************************************************************)
\* The angles a read of v.angle can return, v with z = 0 (none if it raises).
Readings(v) == {r.ang : r \in {s \in angle(<<v>>, 1) : ~Failed(s)}}
ReadsOnly(v, gs) ==
    /\ \A r \in angle(<<v>>, 1) : ~Failed(r)
    /\ Readings(v) # {}
    /\ Readings(v) \subseteq gs
\* The angles of [-pi, pi] that differ from theta by a multiple of 2 pi.
Reduced(theta) ==
    {g \in Principal \cup {Ang(-2, 0)} : g.a = theta.a /\ (g.q - theta.q) % 4 = 0}

\* C6 as claimed: the vector from_angle(theta) returns reads back the angle
\* theta, and after v.angle = theta on a vector with z = 0 a read of v.angle
\* returns theta.
C6_Original ==
    /\ (Called /\ call.op = "from_angle" /\ Completed) =>
          /\ ret.kind = "vec" /\ ExactZero(ret.vec.z)
          /\ ReadsOnly(ret.vec, {call.theta})
    /\ (HasSelf /\ call.op = "angle_setter" /\ ExactZero(Old.z)) =>
          /\ Completed
          /\ ReadsOnly(New, {call.theta})

\* C6 amended: from_angle(theta) raises ZeroDivisionError when both values drawn
\* are 0 and otherwise returns a vector whose angle reads back theta reduced
\* by a multiple of 2 pi into [-pi, pi] (theta - 2 pi for theta > pi, pi or
\* - pi for theta = pi); after v.angle = theta on a vector with z = 0 and
\* nonzero magnitude a read of v.angle returns theta so reduced; on the zero
\* vector the write leaves every component zero and the read returns 0, pi or
\* - pi.
C6_AngleRoundTrip ==
    /\ (Called /\ call.op = "from_angle") =>
          IF Vals(call.o) = Z3 THEN err = "ZeroDivisionError" /\ ret.kind = "none"
          ELSE /\ Completed
               /\ ret.kind = "vec" /\ ExactZero(ret.vec.z)
               /\ ReadsOnly(ret.vec, Reduced(call.theta))
    /\ (HasSelf /\ call.op = "angle_setter" /\ ExactZero(Old.z)) =>
          /\ Completed /\ ExactZero(New.z)
          /\ IF OldV = Z3
             THEN NewV = Z3 /\ ReadsOnly(New, {A0, Ang(2, 0), Ang(-2, 0)})
             ELSE ReadsOnly(New, Reduced(call.theta))

\* C6 witness: from_angle(3 pi / 2) has returned a vector whose angle is - pi / 2.
C6_Witness ==
    /\ call.op = "from_angle" /\ Completed /\ call.theta = Ang(3, 0)
    /\ ret.kind = "vec" /\ Readings(ret.vec) = {Ang(-1, 0)}
    /\ Vals(ret.vec) = [x |-> R0, y |-> RInt(-1), z |-> R0]

(***************************************************************************)
(* C7.  The factories return unit vectors.                                 *)
(***************************************************************************)
\* C7: random_2D, random_3D and from_angle complete for every outcome of the
\* draws in [0, 1), 0 included, and return a vector of magnitude 1, with z = 0
\* for random_2D and from_angle and no negative component for random_2D and
\* random_3D.
C7_UnitFactories ==
    (Called /\ call.op \in {"random_2D", "random_3D", "from_angle"}) =>
        /\ Completed
        /\ ret.kind = "vec"
        /\ NormOf(Vals(ret.vec)) = R1
        /\ call.op \in {"random_2D", "from_angle"} => ExactZero(ret.vec.z)
        /\ call.op \in {"random_2D", "random_3D"} =>
              /\ RLe(R0, ret.vec.x.v) /\ RLe(R0, ret.vec.y.v)
              /\ RLe(R0, ret.vec.z.v)

(***************************************************************************)
(* C8.  The zero edge cases.                                               *)
(***************************************************************************)
\* Division by the scalar 0 (0 or 0.0), normalize or a magnitude write on a
\* vector of zero magnitude, angle_between with an operand of zero magnitude.
ZeroCase ==
    /\ HasSelf
    /\ \/ call.op = "__truediv__" /\ IsNumeric(call.a1) /\ IsZero(call.a1.num)
       \/ call.op \in {"normalize", "magnitude_setter"} /\ OldV = Z3
       \/ call.op = "angle_between" /\ (OldV = Z3 \/ Vals(call.o) = Z3)

\* C8 as claimed: the zero edge cases complete without raising.
C8_Original == ZeroCase => Completed

\* C8 amended: each zero edge case raises ZeroDivisionError (Python's division
\* raises it; the code has no check of its own), returns nothing and leaves
\* every vector as it was.
C8_ZeroCases ==
    ZeroCase => err = "ZeroDivisionError" /\ ret.kind = "none" /\ Untouched

\* C8 witness: normalize on the zero vector has raised ZeroDivisionError.
C8_Witness ==
    /\ HasSelf /\ call.op = "normalize" /\ OldV = Z3
    /\ err = "ZeroDivisionError" /\ New = Old

(***************************************************************************)
(* C9.  rotate.                                                            *)
(***************************************************************************)
\* C9: rotate(theta) completes on every vector, z # 0 included, leaves z
\* unchanged and replaces (x, y) by (x cos theta - y sin theta,
\* x sin theta + y cos theta), both computed from the x and y before the call.
C9_Rotate ==
    (HasSelf /\ call.op = "rotate") =>
        LET c == CosSin(call.theta)[1]
            sn == CosSin(call.theta)[2]
        IN  /\ Completed /\ ret.kind = "none"
            /\ New.z = Old.z
            /\ NewV.x = RSub(RMul(OldV.x, c), RMul(OldV.y, sn))
            /\ NewV.y = RAdd(RMul(OldV.x, sn), RMul(OldV.y, c))

\* C9 witness: rotate(Alpha) has turned a vector with z # 0.
C9_Witness ==
    /\ HasSelf /\ call.op = "rotate" /\ call.theta = Alpha /\ Completed
    /\ OldV.z # R0 /\ OldV.x # R0 /\ OldV.y # R0
    /\ NewV.x # OldV.x /\ NewV.y # OldV.y

(***************************************************************************)
(* C10.  2D mode is closed under the in-place methods.                     *)
(***************************************************************************)
\* C10: called on a vector with z = 0, rotate, the angle, magnitude and
\* magnitude_sq writes, normalize and limit leave z = 0, whether they complete
\* or raise; only an assignment to z takes a vector from z = 0 to z # 0; and a
\* read of angle on a vector with z = 0 does not raise ValueError.
C10_TwoDClosed ==
    /\ (HasSelf /\ ExactZero(Old.z) /\ call.op \in InPlaceOps \ {"set_z"}) =>
          ExactZero(New.z)
    /\ (HasSelf /\ ExactZero(Old.z) /\ ~ExactZero(New.z)) => call.op = "set_z"
    /\ (HasSelf /\ ExactZero(Old.z) /\ call.op = "angle") => err # "ValueError"

\* C10 witness: a magnitude write has rescaled a vector with z = 0 that is not
\* along an axis.
C10_Witness ==
    /\ HasSelf /\ call.op = "magnitude_setter" /\ Completed
    /\ ExactZero(Old.z) /\ OldV.x # R0 /\ OldV.y # R0 /\ NewV # OldV
    /\ ExactZero(New.z)
====
